---- MODULE Spec2Model ----
(***************************************************************************)
(* Model of src/monitor.py: the SystemMonitor terminal dashboard.          *)
(*                                                                         *)
(* Python strings are sequences of one-character strings, so formatting,  *)
(* joining, stripping and case folding are computed, not assumed.          *)
(* A Python call that may raise returns a record [exc, val]: exc is the    *)
(* exception class name, or "none".                                        *)
(***************************************************************************)
EXTENDS Integers, Sequences, FiniteSets, TLC

VARIABLES
    docker_error,     \* self.docker_error: NoError (None) or DockerError(text, cause)
    selected_index,   \* self.selected_index
    scroll_pos,       \* self.scroll_pos
    status_message,   \* self.status_message
    containers,       \* _app_loop's local `containers`
    list_height,      \* height - 12 of the tick's getmaxyx()
    key,              \* the key the tick's getch() returned ("timeout": -1); "none" between ticks
    response,         \* the text the last modal prompt returned (getstr, decoded)
    calls,            \* the external calls the last step issued, in order
    painted,          \* the status lines and prompts the last step painted, in order
    pc,               \* "poll" | "render" | "quit" | "crashed" | "interrupted" | "build"
    listing,          \* what the last containers.list(all=True) did: [exc, val]
    iptables          \* the NAT table and the state of the query tooling at the last refresh

vars == <<docker_error, selected_index, scroll_pos, status_message, containers,
          list_height, key, response, calls, painted, pc, listing, iptables>>

----------------------------------------------------------------------------
(* Bounds of the model *)

MaxContainers == 3    \* container handles the runtime may hold
MaxViewport == 2      \* largest list_height (rows of the container table)
MaxBuild == 2         \* containers per enumeration in the record-building specification
MaxRules == 2         \* rules of the NAT table in the ports specification
MaxDays == 1          \* whole days of uptime in the uptime specification

(* Program constants *)

SecondsPerDay == 86400
SecondsPerHour == 3600
SecondsPerMinute == 60
BytesPerGiB == 1073741824
ConfirmMaxLen == 10
RenameMaxLen == 20

----------------------------------------------------------------------------
(* Strings *)

NA == <<"N", "/", "A">>
ERR == <<"E", "r", "r", "o", "r">>
Arrow == <<"-", ">">>
Comma == <<",">>

Max(a, b) == IF a >= b THEN a ELSE b
Min(a, b) == IF a <= b THEN a ELSE b

DigitChar(d) == <<"0", "1", "2", "3", "4", "5", "6", "7", "8", "9">>[d + 1]

\* f"{n}" of a non-negative int
RECURSIVE DecStr(_)
DecStr(n) == IF n < 10 THEN <<DigitChar(n)>>
             ELSE DecStr(n \div 10) \o <<DigitChar(n % 10)>>

\* sep.join(parts)
RECURSIVE Join(_, _)
Join(sep, parts) ==
    IF parts = <<>> THEN <<>>
    ELSE IF Len(parts) = 1 THEN parts[1]
    ELSE parts[1] \o sep \o Join(sep, Tail(parts))

IsSpace(c) == c \in {" ", "\t", "\n"}

RECURSIVE LStrip(_)
LStrip(s) == IF s # <<>> /\ IsSpace(Head(s)) THEN LStrip(Tail(s)) ELSE s

RECURSIVE RStrip(_)
RStrip(s) == IF s # <<>> /\ IsSpace(s[Len(s)]) THEN RStrip(SubSeq(s, 1, Len(s) - 1)) ELSE s

\* str.strip()
Strip(s) == RStrip(LStrip(s))

LowerChar(c) ==
    CASE c = "Y" -> "y"
      [] c = "E" -> "e"
      [] c = "S" -> "s"
      [] c = "N" -> "n"
      [] c = "O" -> "o"
      [] OTHER -> c

\* str.lower()
Lower(s) == [i \in 1..Len(s) |-> LowerChar(s[i])]

\* code point of the characters container names are made of
Ord(c) ==
    CASE c = "B" -> 66
      [] c = "a" -> 97
      [] c = "b" -> 98
      [] c = "c" -> 99
      [] OTHER -> 0

\* Python's str `<`: lexicographic by code point, a proper prefix is smaller
RECURSIVE StrLess(_, _)
StrLess(s, t) ==
    IF t = <<>> THEN FALSE
    ELSE IF s = <<>> THEN TRUE
    ELSE IF Ord(Head(s)) # Ord(Head(t)) THEN Ord(Head(s)) < Ord(Head(t))
    ELSE StrLess(Tail(s), Tail(t))

\* s.startswith(p)
StartsWith(s, p) == Len(p) <= Len(s) /\ SubSeq(s, 1, Len(p)) = p

----------------------------------------------------------------------------
(* Results of calls that may raise *)

Ok(v) == [exc |-> "none", val |-> v]
Raise(e) == [exc |-> e, val |-> <<>>]

\* One external call, of the runtime (list, stats, start, ...) or the NAT
\* query: the operation, the handle it is called on (0: none), its argument
\* and what it did ("ok" or the exception raised).
Call(op, obj, arg, result) == [op |-> op, obj |-> obj, arg |-> arg, result |-> result]

----------------------------------------------------------------------------
(* Data fetching: NAT fallback, uptime, memory *)

Colon == <<":">>

\* The rules `grep 'DNAT.*--to-destination {ip}:{port}'` lets through: the
\* pattern is not anchored after the port, so a rule matches when its target
\* text begins with ip:port.
RECURSIVE GrepDnat(_, _)
GrepDnat(table, query) ==
    IF table = <<>> THEN <<>>
    ELSE IF StartsWith(Head(table).ip \o Colon \o Head(table).port, query)
         THEN <<Head(table)>> \o GrepDnat(Tail(table), query)
         ELSE GrepDnat(Tail(table), query)

\* re.search(r'--dport\s+(\d+)', output): the first port-match clause of the
\* output; a rule without the clause has dport = <<>>.
RECURSIVE SearchDport(_)
SearchDport(lines) ==
    IF lines = <<>> THEN <<>>
    ELSE IF Head(lines).dport # <<>> THEN Head(lines).dport
    ELSE SearchDport(Tail(lines))

\* subprocess.run("sudo iptables-save | grep ...", shell=True, check=True):
\* the pipeline's status is grep's. When sudo or iptables-save fails, grep
\* reads nothing and exits 1 (CalledProcessError); the call raises another
\* exception only when the shell itself cannot be spawned.
RunIptablesGrep(nat, query) ==
    IF nat.fault = "spawn_error" THEN Raise("OSError")
    ELSE IF nat.fault \in {"sudo_denied", "tool_missing"} THEN Raise("CalledProcessError")
    ELSE IF GrepDnat(nat.table, query) = <<>> THEN Raise("CalledProcessError")
    ELSE Ok(GrepDnat(nat.table, query))

\* _get_host_port_from_iptables without the except clause of lines 60-62
GetHostPortNoRuleIsError(container_ip, container_i_port, nat) ==
    IF container_ip = <<>> \/ container_i_port = <<>>
    THEN [val |-> NA, calls |-> <<>>]
    ELSE IF RunIptablesGrep(nat, container_ip \o Colon \o container_i_port).exc # "none"
    THEN [val |-> ERR,
          calls |-> <<Call("iptables", 0, container_ip \o Colon \o container_i_port,
                           RunIptablesGrep(nat, container_ip \o Colon \o container_i_port).exc)>>]
    ELSE [val |-> IF SearchDport(RunIptablesGrep(nat, container_ip \o Colon \o container_i_port).val) # <<>>
                  THEN SearchDport(RunIptablesGrep(nat, container_ip \o Colon \o container_i_port).val)
                  ELSE NA,
          calls |-> <<Call("iptables", 0, container_ip \o Colon \o container_i_port, "ok")>>]

\* _get_host_port_from_iptables: [val |-> the string returned, calls |-> queries issued]
GetHostPortFromIptables(container_ip, container_i_port, nat) ==
    IF container_ip = <<>> \/ container_i_port = <<>>
    THEN [val |-> NA, calls |-> <<>>]
    ELSE LET query == container_ip \o Colon \o container_i_port
             result == RunIptablesGrep(nat, query)
             issued == <<Call("iptables", 0, query, IF result.exc = "none" THEN "ok" ELSE result.exc)>>
         IN IF result.exc = "none"
            THEN IF SearchDport(result.val) # <<>>
                 THEN [val |-> SearchDport(result.val), calls |-> issued]
                 ELSE [val |-> NA, calls |-> issued]
            ELSE IF result.exc = "CalledProcessError"
            THEN [val |-> NA, calls |-> issued]
            ELSE [val |-> ERR, calls |-> issued]

\* lines 84-91 appending the seconds whatever the other parts are
FormatUptimeWithSeconds(total_seconds) ==
    LET days == total_seconds \div SecondsPerDay
        hours == (total_seconds % SecondsPerDay) \div SecondsPerHour
        minutes == (total_seconds % SecondsPerHour) \div SecondsPerMinute
        seconds == total_seconds % SecondsPerMinute
    IN (IF days > 0 THEN DecStr(days) \o <<"d">> ELSE <<>>)
         \o (IF hours > 0 THEN DecStr(hours) \o <<"h">> ELSE <<>>)
         \o (IF minutes > 0 THEN DecStr(minutes) \o <<"m">> ELSE <<>>)
         \o DecStr(seconds) \o <<"s">>

\* The f-strings of lines 84-91 for total_seconds >= 0.
FormatUptime(total_seconds) ==
    LET days == total_seconds \div SecondsPerDay
        remainder1 == total_seconds % SecondsPerDay
        hours == remainder1 \div SecondsPerHour
        remainder2 == remainder1 % SecondsPerHour
        minutes == remainder2 \div SecondsPerMinute
        seconds == remainder2 % SecondsPerMinute
        d == IF days > 0 THEN DecStr(days) \o <<"d">> ELSE <<>>
        h == IF hours > 0 THEN DecStr(hours) \o <<"h">> ELSE <<>>
        m == IF minutes > 0 THEN DecStr(minutes) \o <<"m">> ELSE <<>>
        s == IF d \o h \o m = <<>> /\ seconds >= 0 THEN DecStr(seconds) \o <<"s">> ELSE <<>>
    IN d \o h \o m \o s

\* _get_container_uptime. container.started.shape says what
\* attrs['State']['StartedAt'] is: "iso" a timestamp `elapsed` seconds in the
\* past, "missing" no such key (KeyError), "malformed" a string fromisoformat
\* rejects (ValueError), "null" None (None.replace: AttributeError, which the
\* except clause of line 96 does not name).
GetContainerUptime(container) ==
    IF container.status = "running"
    THEN CASE container.started.shape = "iso" -> Ok(FormatUptime(container.started.elapsed))
           [] container.started.shape = "missing" -> Ok(ERR)
           [] container.started.shape = "malformed" -> Ok(ERR)
           [] OTHER -> Raise("AttributeError")
    ELSE Ok(NA)

\* f"{mem_usage_bytes / (1024**3):.2f}G", for usages small enough that the
\* hundredths fit 32-bit integers.
FormatRam(mem_usage_bytes) ==
    LET hundredths == (mem_usage_bytes * 100 + BytesPerGiB \div 2) \div BytesPerGiB
    IN DecStr(hundredths \div 100) \o <<".">> \o DecStr((hundredths % 100) \div 10)
         \o DecStr(hundredths % 10) \o <<"G">>

\* _get_container_ram_stats. container.stats.shape: "ok" a snapshot with
\* memory_stats.usage, "nokey" a snapshot without it, "raises" the stats call
\* fails; every exception is swallowed.
GetContainerRamStats(container) ==
    [val |-> IF container.stats.shape = "ok" THEN FormatRam(container.stats.usage) ELSE NA,
     calls |-> <<Call("stats", container.obj, <<>>,
                      IF container.stats.shape = "raises" THEN "APIError" ELSE "ok")>>]

----------------------------------------------------------------------------
(* get_docker_containers *)

\* A container object of the runtime client:
\*   obj      the handle (identity of the Python object), also its short_id
\*   name, status, image  container.name, container.status, container.image
\*   net      attrs['NetworkSettings']: shape "absent" (no such key), "null"
\*            (None) or "dict" with networks (the IPAddress of each attached
\*            network, in iteration order) and ports (the Ports items: key
\*            such as 80/tcp, host the binding list)
\*   started  attrs['State']['StartedAt']
\*   stats    what container.stats(stream=False) gives

\* key.split('/')[0]
RECURSIVE BeforeSlash(_)
BeforeSlash(s) ==
    IF s = <<>> \/ Head(s) = "/" THEN <<>> ELSE <<Head(s)>> \o BeforeSlash(Tail(s))

\* lines 131-134: the first non-empty IPAddress, 'N/A' when there is none
RECURSIVE FirstIp(_)
FirstIp(networks) ==
    IF networks = <<>> THEN NA
    ELSE IF Head(networks) # <<>> THEN Head(networks)
    ELSE FirstIp(Tail(networks))

\* lines 143-146: host is [shape |-> "none"] (None or an empty list),
\* "nokey" (a binding without HostPort) or "binding" with its HostPort
RuntimeHostPort(host) == IF host.shape = "binding" THEN host.port ELSE NA

\* lines 140-156 for one Ports item: [val |-> the entry, calls |-> NAT queries]
PortEntry(ip_addr, item, nat) ==
    LET container_i_port == BeforeSlash(item.key)
        reported == RuntimeHostPort(item.host)
        fallback == GetHostPortFromIptables(ip_addr, container_i_port, nat)
        host_port_num == IF reported = NA THEN fallback.val ELSE reported
    IN [val |-> IF host_port_num # NA THEN host_port_num \o Arrow \o container_i_port
                ELSE container_i_port,
        calls |-> IF reported = NA THEN fallback.calls ELSE <<>>]

RECURSIVE PortEntries(_, _, _)
PortEntries(ip_addr, port_data, nat) ==
    IF port_data = <<>> THEN <<>>
    ELSE <<PortEntry(ip_addr, Head(port_data), nat)>> \o PortEntries(ip_addr, Tail(port_data), nat)

RECURSIVE ConcatCalls(_)
ConcatCalls(rs) == IF rs = <<>> THEN <<>> ELSE Head(rs).calls \o ConcatCalls(Tail(rs))

\* lines 126-158: the ports field. None.get raises AttributeError.
GetPorts(container, nat) ==
    IF container.net.shape = "null" THEN [exc |-> "AttributeError", val |-> <<>>, calls |-> <<>>]
    ELSE IF container.net.shape = "absent" \/ container.net.ports = <<>>
    THEN [exc |-> "none", val |-> NA, calls |-> <<>>]
    ELSE LET entries == PortEntries(FirstIp(container.net.networks), container.net.ports, nat)
         IN [exc |-> "none",
             val |-> Join(Comma, [i \in 1..Len(entries) |-> entries[i].val]),
             calls |-> ConcatCalls(entries)]

\* line 166
ImageLabel(image) == IF image.tags # <<>> THEN image.tags[1] ELSE image.short_id

\* lines 124-171, the body of the for loop: the record appended, or the
\* exception that leaves the loop; calls are the external calls issued.
BuildRecord(container, nat) ==
    LET ports == GetPorts(container, nat)
        ram == GetContainerRamStats(container)
        uptime == GetContainerUptime(container)
    IN IF ports.exc # "none" THEN [exc |-> ports.exc, val |-> <<>>, calls |-> ports.calls]
       ELSE IF uptime.exc # "none"
       THEN [exc |-> uptime.exc, val |-> <<>>, calls |-> ports.calls \o ram.calls]
       ELSE [exc |-> "none",
             val |-> [id |-> container.obj,
                      name |-> container.name,
                      status |-> container.status,
                      image |-> ImageLabel(container.image),
                      ports |-> ports.val,
                      uptime |-> uptime.val,
                      ram |-> ram.val,
                      obj |-> container.obj],
             calls |-> ports.calls \o ram.calls]

\* one more pass of the for loop: first is the record (or exception) of the
\* container at hand, rest what the remaining passes give if they are reached
AppendRecord(first, rest) ==
    IF first.exc # "none" THEN first
    ELSE [exc |-> rest.exc,
          val |-> IF rest.exc = "none" THEN <<first.val>> \o rest.val ELSE <<>>,
          calls |-> first.calls \o rest.calls]

\* the for loop of lines 123-171 over the enumerated containers
RECURSIVE BuildAll(_, _)
BuildAll(enumerated, nat) ==
    IF enumerated = <<>> THEN [exc |-> "none", val |-> <<>>, calls |-> <<>>]
    ELSE AppendRecord(BuildRecord(Head(enumerated), nat), BuildAll(Tail(enumerated), nat))

\* get_docker_containers returning the records in the order they were built
Unsorted(cs) == cs

\* sorted(containers, key=lambda c: c['name']): stable, ascending
RECURSIVE InsertByName(_, _)
InsertByName(sorted, c) ==
    IF sorted = <<>> THEN <<c>>
    ELSE IF StrLess(c.name, Head(sorted).name) THEN <<c>> \o sorted
    ELSE <<Head(sorted)>> \o InsertByName(Tail(sorted), c)

RECURSIVE SortedByName(_)
SortedByName(cs) ==
    IF cs = <<>> THEN <<>>
    ELSE InsertByName(SortedByName(SubSeq(cs, 1, Len(cs) - 1)), cs[Len(cs)])

NoError == [set |-> FALSE, text |-> "", cause |-> "none"]
DockerError(text, cause) == [set |-> TRUE, text |-> text, cause |-> cause]

ListCall(result) == <<Call("list", 0, <<>>, result)>>

\* lines 172-176: built is what the for loop gave
ReturnContainers(error, built) ==
    IF built.exc # "none"
    THEN [containers |-> <<>>,
          error |-> DockerError("Docker error", built.exc),
          calls |-> ListCall("ok") \o built.calls]
    ELSE [containers |-> SortedByName(built.val),
          error |-> error,
          calls |-> ListCall("ok") \o built.calls]

\* get_docker_containers without the guard of lines 118-119
GetDockerContainersUnguarded(error, enumeration, nat) ==
    IF enumeration.exc # "none"
    THEN [containers |-> <<>>,
          error |-> DockerError("Docker error", enumeration.exc),
          calls |-> ListCall(enumeration.exc)]
    ELSE ReturnContainers(error, BuildAll(enumeration.val, nat))

\* get_docker_containers. enumeration is what containers.list(all=True)
\* does: [exc, val]. Gives the list returned, self.docker_error afterwards
\* and the external calls issued.
GetDockerContainers(error, enumeration, nat) ==
    IF error.set THEN [containers |-> <<>>, error |-> error, calls |-> <<>>]
    ELSE IF enumeration.exc # "none"
    THEN [containers |-> <<>>,
          error |-> DockerError("Docker error", enumeration.exc),
          calls |-> ListCall(enumeration.exc)]
    ELSE ReturnContainers(error, BuildAll(enumeration.val, nat))

----------------------------------------------------------------------------
(* Container actions and prompts *)

NoStatus == [kind |-> "empty", action |-> "", name |-> <<>>, arg |-> <<>>, cause |-> "none"]
\* "Container list updated."
UpdatedStatus == [NoStatus EXCEPT !.kind = "updated"]
\* "Stopping container, this may take a minute..."
StoppingStatus == [NoStatus EXCEPT !.kind = "stopping"]
\* "Successfully renamed ... to ...", "Successfully removed container ...",
\* "Successfully sent '...' command to ..."
SuccessStatus(action_name, name, new_name) ==
    [kind |-> "success", action |-> action_name, name |-> name, arg |-> new_name, cause |-> "none"]
\* f"Error: {str(e)}"
ErrorStatus(cause) == [NoStatus EXCEPT !.kind = "error", !.cause = cause]

\* f"Delete container '{container_to_delete}'?" in the window of _confirm_action
ConfirmPrompt(name) == [NoStatus EXCEPT !.kind = "confirm", !.action = "remove", !.name = name]
\* f"New name for '{current_name}': " in the window of _get_new_name
RenamePrompt(name) == [NoStatus EXCEPT !.kind = "prompt", !.action = "rename", !.name = name]

\* the keyword argument force=True of line 192
ForceTrue == <<"f", "o", "r", "c", "e">>

\* the argument of the runtime call: rename(new_name), remove(force=True),
\* none for start, stop and restart
CallArg(action_name, new_name) ==
    IF action_name = "remove" THEN ForceTrue
    ELSE IF action_name = "rename" THEN new_name
    ELSE <<>>

\* what a runtime lifecycle call may do: return, or raise with a cause
CallOutcomes == {"ok", "APIError", "NotFound"}

\* _perform_action acting on the first record instead of the selected one
PerformActionOnFirst(action_name, cs, new_name, status, outcome) ==
    IF cs = <<>> \/ docker_error.set
    THEN [exc |-> "none", status |-> status, calls |-> <<>>]
    ELSE IF selected_index >= Len(cs)
    THEN [exc |-> "IndexError", status |-> status, calls |-> <<>>]
    ELSE IF outcome = "ok"
    THEN [exc |-> "none",
          status |-> SuccessStatus(action_name, cs[1].name, new_name),
          calls |-> <<Call(action_name, cs[1].obj, CallArg(action_name, new_name), outcome)>>]
    ELSE [exc |-> "none", status |-> ErrorStatus(outcome),
          calls |-> <<Call(action_name, cs[1].obj, CallArg(action_name, new_name), outcome)>>]

\* _perform_action without the early return of lines 182-183
PerformActionUnguarded(action_name, cs, new_name, status, outcome) ==
    IF selected_index >= Len(cs)
    THEN [exc |-> "IndexError", status |-> status, calls |-> <<>>]
    ELSE IF outcome = "ok"
    THEN [exc |-> "none",
          status |-> SuccessStatus(action_name, cs[selected_index + 1].name, new_name),
          calls |-> <<Call(action_name, cs[selected_index + 1].obj, CallArg(action_name, new_name), outcome)>>]
    ELSE [exc |-> "none", status |-> ErrorStatus(outcome),
          calls |-> <<Call(action_name, cs[selected_index + 1].obj, CallArg(action_name, new_name), outcome)>>]

\* _perform_action calling remove() without force=True
PerformActionUnforced(action_name, cs, new_name, status, outcome) ==
    IF cs = <<>> \/ docker_error.set
    THEN [exc |-> "none", status |-> status, calls |-> <<>>]
    ELSE IF selected_index >= Len(cs)
    THEN [exc |-> "IndexError", status |-> status, calls |-> <<>>]
    ELSE IF outcome = "ok"
    THEN [exc |-> "none",
          status |-> SuccessStatus(action_name, cs[selected_index + 1].name, new_name),
          calls |-> <<Call(action_name, cs[selected_index + 1].obj, new_name, outcome)>>]
    ELSE [exc |-> "none", status |-> ErrorStatus(outcome),
          calls |-> <<Call(action_name, cs[selected_index + 1].obj, new_name, outcome)>>]

\* _perform_action: [exc, status, calls] are the exception that leaves it
\* ("none" or the IndexError of line 185), self.status_message afterwards
\* and the runtime calls issued. status is self.status_message on entry,
\* outcome what the runtime call does.
PerformAction(action_name, cs, new_name, status, outcome) ==
    IF cs = <<>> \/ docker_error.set
    THEN [exc |-> "none", status |-> status, calls |-> <<>>]
    ELSE IF selected_index >= Len(cs)
    THEN [exc |-> "IndexError", status |-> status, calls |-> <<>>]
    ELSE LET container_obj == cs[selected_index + 1]
             issued == <<Call(action_name, container_obj.obj, CallArg(action_name, new_name), outcome)>>
         IN IF outcome = "ok"
            THEN [exc |-> "none",
                  status |-> SuccessStatus(action_name, container_obj.name, new_name),
                  calls |-> issued]
            ELSE [exc |-> "none", status |-> ErrorStatus(outcome), calls |-> issued]

\* _confirm_action taking the empty answer for the capitalised default of the prompt
ConfirmActionDefaultYes(user_input) ==
    Lower(Strip(user_input)) \in {<<"y", "e", "s">>, <<"y">>, <<>>}

\* _confirm_action: user_input is getstr(...).decode('utf-8'); line 223
\* strips and lowers it, line 235 tests it.
ConfirmAction(user_input) == Lower(Strip(user_input)) \in {<<"y", "e", "s">>, <<"y">>}

\* _get_new_name without the strip of line 255
GetNewNameUnstripped(user_input) == user_input

\* _get_new_name: line 255
GetNewName(user_input) == Strip(user_input)

----------------------------------------------------------------------------
(* Drawing *)

\* line 455 looking for "Successfully" only
IsOneShotSuccessOnly(msg) == msg.kind = "success"

\* line 455: "Successfully" in msg or "Error" in msg. Of the messages the
\* program builds, the success messages begin with Successfully, the error
\* messages with Error:, and the two fixed texts contain neither word.
IsOneShot(msg) == msg.kind \in {"success", "error"}

\* _draw_footer clearing whatever message it has painted
DrawFooterClearsAll(status) ==
    IF status.kind # "empty"
    THEN [painted |-> <<status>>, status |-> NoStatus]
    ELSE [painted |-> <<>>, status |-> status]

\* _draw_footer: the status line painted (if any) and self.status_message afterwards
DrawFooter(status) ==
    IF status.kind # "empty"
    THEN [painted |-> <<status>>, status |-> IF IsOneShot(status) THEN NoStatus ELSE status]
    ELSE [painted |-> <<>>, status |-> status]

\* _draw_container_list, lines 344-374: self.scroll_pos afterwards
DrawContainerList(error, cs, selected, scroll, height) ==
    IF error.set THEN scroll
    ELSE IF cs = <<>> THEN scroll
    ELSE LET s1 == IF selected < scroll THEN selected ELSE scroll
         IN IF selected >= s1 + height THEN selected - height + 1 ELSE s1

----------------------------------------------------------------------------
(* The runtime the event loop runs against *)

Handles == 1..MaxContainers
Heights == 1..MaxViewport

\* Handle 1 has the longest name, so sorting by name reverses the order the
\* runtime enumerates the handles in.
NameOfHandle(h) == [i \in 1..(MaxContainers + 1 - h) |-> "a"]

NoNetwork == [shape |-> "absent", networks |-> <<>>, ports |-> <<>>]

FleetContainer(h) ==
    [obj |-> h,
     name |-> NameOfHandle(h),
     status |-> IF h % 2 = 1 THEN "running" ELSE "exited",
     image |-> [tags |-> <<>>, short_id |-> <<"i">>],
     net |-> NoNetwork,
     started |-> [shape |-> "iso", elapsed |-> 59],
     stats |-> [shape |-> "raises", usage |-> 0]]

\* the handles of S in ascending order
RECURSIVE Ascending(_)
Ascending(S) ==
    IF S = {} THEN <<>>
    ELSE LET m == CHOOSE x \in S : \A y \in S : x <= y
         IN <<m>> \o Ascending(S \ {m})

FleetListing(S) == [i \in 1..Cardinality(S) |-> FleetContainer(Ascending(S)[i])]

\* what containers.list(all=True) may do at a refresh of the event loop:
\* yield any part of the fleet, or raise
LoopEnumerations ==
    {Ok(FleetListing(S)) : S \in SUBSET Handles} \cup {Raise("ConnectionError")}

NoIptables == [fault |-> "none", table |-> <<>>]

\* the texts typed into the confirmation prompt (at most ConfirmMaxLen characters)
ConfirmInputs ==
    {r \in {<<>>, <<"y">>, <<"Y">>, <<" ", "y", " ">>, <<"Y", "E", "S">>, <<"y", "e", "s">>,
            <<"n">>, <<"n", "o">>, <<"y", "e">>, <<"y", " ", "e", "s">>, <<" ">>}
       : Len(r) <= ConfirmMaxLen}

\* the texts typed into the rename prompt (at most RenameMaxLen characters)
RenameInputs ==
    {r \in {<<>>, <<" ">>, <<"b">>, <<" ", "b", " ">>} : Len(r) <= RenameMaxLen}

----------------------------------------------------------------------------
(* The event loop *)

\* __init__ (lines 16-28) and _app_loop up to its first getch (lines 463-468)
Init ==
    \E connected \in BOOLEAN, enumeration \in LoopEnumerations :
        LET error == IF connected THEN NoError
                     ELSE DockerError("Docker not available", "ConnectionError")
            got == GetDockerContainers(error, enumeration, NoIptables)
        IN /\ docker_error = got.error
           /\ containers = got.containers
           /\ calls = got.calls
           /\ listing = IF connected THEN enumeration ELSE Ok(<<>>)
           /\ iptables = NoIptables
           /\ selected_index = 0
           /\ scroll_pos = 0
           /\ status_message = NoStatus
           /\ list_height \in Heights
           /\ key = "none"
           /\ response = <<>>
           /\ painted = <<>>
           /\ pc = "poll"

\* lines 471-473: the terminal size is read, then getch returns k
GetCh(k) ==
    /\ pc = "poll"
    /\ key' = k
    /\ list_height' \in Heights

\* lines 475-476
TickQuit ==
    /\ GetCh("q")
    /\ pc' = "quit"
    /\ response' = <<>> /\ calls' = <<>> /\ painted' = <<>>
    /\ UNCHANGED <<docker_error, selected_index, scroll_pos, status_message, containers,
                   listing, iptables>>

\* lines 477-478
TickUp ==
    /\ GetCh("KEY_UP")
    /\ selected_index' = Max(0, selected_index - 1)
    /\ pc' = "render"
    /\ response' = <<>> /\ calls' = <<>> /\ painted' = <<>>
    /\ UNCHANGED <<docker_error, scroll_pos, status_message, containers, listing, iptables>>

\* lines 479-480; with no containers no later branch takes KEY_DOWN
TickDown ==
    /\ GetCh("KEY_DOWN")
    /\ selected_index' = IF containers # <<>>
                         THEN Min(Len(containers) - 1, selected_index + 1)
                         ELSE selected_index
    /\ pc' = "render"
    /\ response' = <<>> /\ calls' = <<>> /\ painted' = <<>>
    /\ UNCHANGED <<docker_error, scroll_pos, status_message, containers, listing, iptables>>

\* the assignment `containers = self.get_docker_containers()` of lines 482 and 504
Refresh(enumeration) ==
    LET got == GetDockerContainers(docker_error, enumeration, NoIptables)
    IN /\ containers' = got.containers
       /\ docker_error' = got.error
       /\ calls' = got.calls
       /\ listing' = IF docker_error.set THEN listing ELSE enumeration
       /\ UNCHANGED iptables

\* lines 481-483
TickUpdate ==
    /\ GetCh("u")
    /\ \E enumeration \in LoopEnumerations : Refresh(enumeration)
    /\ status_message' = UpdatedStatus
    /\ pc' = "render"
    /\ response' = <<>> /\ painted' = <<>>
    /\ UNCHANGED <<selected_index, scroll_pos>>

\* lines 503-504: no key within the timeout
TickTimeout ==
    /\ GetCh("timeout")
    /\ \E enumeration \in LoopEnumerations : Refresh(enumeration)
    /\ pc' = "render"
    /\ response' = <<>> /\ painted' = <<>>
    /\ UNCHANGED <<selected_index, scroll_pos, status_message>>

\* the inventory without the records of the containers a call has removed
Surviving(cs, issued) ==
    SelectSeq(cs, LAMBDA c : \A i \in 1..Len(issued) :
                                ~(issued[i].op = "remove" /\ issued[i].result = "ok"
                                    /\ issued[i].obj = c.obj))

\* _perform_action followed by the inventory dropping what the call removed
AfterActionDropsRemoved(done) ==
    /\ status_message' = done.status
    /\ calls' = done.calls
    /\ pc' = IF done.exc = "none" THEN "render" ELSE "crashed"
    /\ containers' = Surviving(containers, done.calls)
    /\ UNCHANGED <<docker_error, selected_index, scroll_pos, listing, iptables>>

\* the state after a call of _perform_action that gave `done`
AfterAction(done) ==
    /\ status_message' = done.status
    /\ calls' = done.calls
    /\ pc' = IF done.exc = "none" THEN "render" ELSE "crashed"
    /\ UNCHANGED <<docker_error, selected_index, scroll_pos, containers, listing, iptables>>

\* lines 484-485
TickStart ==
    /\ GetCh("s")
    /\ \E outcome \in CallOutcomes :
          AfterAction(PerformAction("start", containers, <<>>, status_message, outcome))
    /\ response' = <<>> /\ painted' = <<>>

\* lines 486-490; with no containers no later branch takes the key
TickStop ==
    /\ GetCh("x")
    /\ IF containers # <<>>
       THEN /\ painted' = DrawFooter(StoppingStatus).painted
            /\ \E outcome \in CallOutcomes :
                  AfterAction(PerformAction("stop", containers, <<>>,
                                            DrawFooter(StoppingStatus).status, outcome))
       ELSE /\ painted' = <<>>
            /\ calls' = <<>>
            /\ pc' = "render"
            /\ UNCHANGED <<docker_error, selected_index, scroll_pos, status_message,
                           containers, listing, iptables>>
    /\ response' = <<>>

\* lines 491-492
TickRestart ==
    /\ GetCh("r")
    /\ \E outcome \in CallOutcomes :
          AfterAction(PerformAction("restart", containers, <<>>, status_message, outcome))
    /\ response' = <<>> /\ painted' = <<>>

\* the key was taken by a branch that did nothing more
NothingDone ==
    /\ calls' = <<>>
    /\ pc' = "render"
    /\ UNCHANGED <<docker_error, selected_index, scroll_pos, status_message, containers,
                   listing, iptables>>

\* line 494 or 498 raised IndexError
LookupFailed ==
    /\ calls' = <<>>
    /\ pc' = "crashed"
    /\ UNCHANGED <<docker_error, selected_index, scroll_pos, status_message, containers,
                   listing, iptables>>

\* lines 493-496
TickDelete ==
    /\ GetCh("d")
    /\ IF containers = <<>> THEN painted' = <<>> /\ response' = <<>> /\ NothingDone
       ELSE IF selected_index >= Len(containers)
       THEN painted' = <<>> /\ response' = <<>> /\ LookupFailed
       ELSE \E user_input \in ConfirmInputs :
              /\ painted' = <<ConfirmPrompt(containers[selected_index + 1].name)>>
              /\ response' = user_input
              /\ IF ConfirmAction(user_input)
                 THEN \E outcome \in CallOutcomes :
                        AfterAction(PerformAction("remove", containers, <<>>,
                                                  status_message, outcome))
                 ELSE NothingDone

\* lines 497-501
TickRename ==
    /\ GetCh("n")
    /\ IF containers = <<>> THEN painted' = <<>> /\ response' = <<>> /\ NothingDone
       ELSE IF selected_index >= Len(containers)
       THEN painted' = <<>> /\ response' = <<>> /\ LookupFailed
       ELSE \E user_input \in RenameInputs :
              /\ painted' = <<RenamePrompt(containers[selected_index + 1].name)>>
              /\ response' = user_input
              /\ IF GetNewName(user_input) # <<>>
                 THEN \E outcome \in CallOutcomes :
                        AfterAction(PerformAction("rename", containers, GetNewName(user_input),
                                                  status_message, outcome))
                 ELSE NothingDone

\* any other key (a resize, a letter without a binding): no branch takes it
TickOtherKey ==
    /\ GetCh("other")
    /\ response' = <<>> /\ painted' = <<>>
    /\ NothingDone

\* lines 506-511: the frame. The header and the system statistics read no
\* dashboard state.
Render ==
    /\ pc = "render"
    /\ scroll_pos' = DrawContainerList(docker_error, containers, selected_index,
                                       scroll_pos, list_height)
    /\ painted' = DrawFooter(status_message).painted
    /\ status_message' = DrawFooter(status_message).status
    /\ pc' = "poll"
    /\ key' = "none" /\ response' = <<>> /\ calls' = <<>>
    /\ UNCHANGED <<docker_error, selected_index, containers, list_height, listing, iptables>>

\* lines 515-518: Ctrl-C ends the loop wherever it is
Interrupt ==
    /\ pc \in {"poll", "render"}
    /\ pc' = "interrupted"
    /\ UNCHANGED <<docker_error, selected_index, scroll_pos, status_message, containers,
                   list_height, key, response, calls, painted, listing, iptables>>

Next ==
    \/ TickQuit \/ TickUp \/ TickDown \/ TickUpdate \/ TickTimeout
    \/ TickStart \/ TickStop \/ TickRestart \/ TickDelete \/ TickRename
    \/ TickOtherKey \/ Render \/ Interrupt

Spec == Init /\ [][Next]_vars

----------------------------------------------------------------------------
(* Properties of the event loop *)

EndOfTick == pc = "poll"

\* C1: at the end of every tick in which the inventory is non-empty,
\* 0 <= selectedIndex <= len(inventory) - 1.
C1_SelectedIndexInRange ==
    (EndOfTick /\ containers # <<>>) =>
        (0 <= selected_index /\ selected_index <= Len(containers) - 1)

\* C2: no uncaught error ever leaves the event loop; the loop ends only by
\* the quit key or an interrupt.
C2_NoUncaughtError == pc # "crashed"

\* C3: after every tick, scrollOffset <= selectedIndex < scrollOffset + viewportHeight.
C3_SelectionVisible ==
    EndOfTick => (scroll_pos <= selected_index /\ selected_index < scroll_pos + list_height)

\* C4: at the end of every tick,
\* 0 <= scrollOffset <= max(0, len(inventory) - viewportHeight).
C4_ScrollBounded ==
    EndOfTick => (0 <= scroll_pos /\ scroll_pos <= Max(0, Len(containers) - list_height))

HasCall(cs, op) == \E i \in 1..Len(cs) : cs[i].op = op

\* C6: once the standing error is set it stays as it is, the inventory the
\* loop holds is empty, and a refresh neither enumerates the runtime nor
\* returns a record.
C6_StandingErrorIsTerminal ==
    [][docker_error.set =>
          /\ docker_error' = docker_error
          /\ containers = <<>>
          /\ containers' = <<>>
          /\ (pc = "poll" /\ key' \in {"u", "timeout"}) => calls' = <<>>]_vars

\* a refresh requested by the operator short-circuited on a standing error
\* that an enumeration failure had set during the session
C6_Witness ==
    /\ pc = "render"
    /\ key = "u"
    /\ docker_error.set
    /\ docker_error.text = "Docker error"
    /\ calls = <<>>
    /\ containers = <<>>

\* C7: while the inventory is empty selectedIndex is 0, and the up and down
\* keys leave it unchanged.
C7_EmptyInventorySelection ==
    [][containers = <<>> =>
          /\ selected_index = 0
          /\ (key' \in {"KEY_UP", "KEY_DOWN"} => selected_index' = selected_index)]_vars

AllSpaces(s) == \A i \in 1..Len(s) : IsSpace(s[i])

\* the answers that say yes: y or yes in any case, between any whitespace
IsAffirmative(answer) ==
    \E i, j \in 0..Len(answer) :
        /\ i <= j
        /\ AllSpaces(SubSeq(answer, 1, i))
        /\ AllSpaces(SubSeq(answer, j + 1, Len(answer)))
        /\ LET word == SubSeq(answer, i + 1, j)
           IN \/ /\ Len(word) = 1
                 /\ word[1] \in {"y", "Y"}
              \/ /\ Len(word) = 3
                 /\ word[1] \in {"y", "Y"}
                 /\ word[2] \in {"e", "E"}
                 /\ word[3] \in {"s", "S"}

\* C8: a delete key answered by anything but an affirmative answer issues no
\* runtime remove call and leaves statusMessage as it was, through the key
\* handling and the frame that follows.
C8_DeclinedDeleteDoesNothing ==
    [][/\ (key' = "d" /\ ~IsAffirmative(response')) =>
             (~HasCall(calls', "remove") /\ status_message' = status_message)
       /\ (pc = "render" /\ key = "d" /\ ~IsAffirmative(response)) =>
             status_message' = status_message]_vars

\* the prompt was shown for a record and answered with the empty text
C8_Witness ==
    /\ pc = "render"
    /\ key = "d"
    /\ containers # <<>>
    /\ selected_index < Len(containers)
    /\ response = <<>>
    /\ calls = <<>>

\* C9: a rename key answered by an empty or all-whitespace text issues no
\* runtime rename call and leaves statusMessage as it was.
C9_EmptyRenameDoesNothing ==
    [][(key' = "n" /\ AllSpaces(response')) =>
          (~HasCall(calls', "rename") /\ status_message' = status_message)]_vars

\* the prompt was shown for a record and answered with a blank
C9_Witness ==
    /\ pc = "render"
    /\ key = "n"
    /\ containers # <<>>
    /\ selected_index < Len(containers)
    /\ response = <<" ">>
    /\ calls = <<>>

ActionOfKey(k) ==
    CASE k = "s" -> "start"
      [] k = "x" -> "stop"
      [] k = "r" -> "restart"
      [] OTHER -> ""

\* C10: a start, stop or restart key pressed with a non-empty inventory, a
\* valid selectedIndex and no standing error issues exactly one call, of the
\* key's operation, on the handle of the record at selectedIndex, and sets
\* statusMessage to the success message if the call returns, to the error
\* message with the call's cause if it raises.
C10_SingleLifecycleCall ==
    [][(/\ key' \in {"s", "x", "r"}
        /\ containers # <<>>
        /\ selected_index < Len(containers)
        /\ ~docker_error.set) =>
          /\ Len(calls') = 1
          /\ calls'[1].op = ActionOfKey(key')
          /\ calls'[1].obj = containers[selected_index + 1].obj
          /\ status_message' =
                IF calls'[1].result = "ok"
                THEN SuccessStatus(ActionOfKey(key'), containers[selected_index + 1].name, <<>>)
                ELSE ErrorStatus(calls'[1].result)]_vars

\* a stop of a record other than the first failed and left its cause as the status
C10_Witness ==
    /\ pc = "render"
    /\ key = "x"
    /\ selected_index > 0
    /\ selected_index < Len(containers)
    /\ Len(calls) = 1
    /\ calls[1].op = "stop"
    /\ calls[1].result = "NotFound"
    /\ status_message = ErrorStatus("NotFound")

\* a message that reports the success or the failure of an action
ReportsOutcome(msg) == msg.kind \in {"success", "error"}

PaintsOutcome(row) == \E i \in 1..Len(row) : ReportsOutcome(row[i])

LifecycleOps == {"start", "stop", "restart", "remove", "rename"}

\* C11: a message that reports the success or the failure of an action is
\* painted in exactly one frame: the render that follows the action paints
\* it and leaves statusMessage empty, no tick ends with such a message
\* pending, and no other step paints one.
C11_OneShotStatus ==
    [][/\ (pc = "render" /\ pc' = "poll" /\ ReportsOutcome(status_message)) =>
             /\ painted' = <<status_message>>
             /\ status_message' = NoStatus
       /\ pc' = "poll" => ~ReportsOutcome(status_message')
       /\ (pc = "poll" /\ pc' # "interrupted") => ~PaintsOutcome(painted')
       /\ (pc = "render" /\ pc' = "poll" /\ PaintsOutcome(painted')) =>
             /\ painted' = <<status_message>>
             /\ Len(calls) = 1
             /\ calls[1].op \in LifecycleOps]_vars

\* the frame after a failed stop: the stop notice was painted before the
\* call, the error message in this frame, and nothing is left to paint
C11_Witness ==
    /\ pc = "poll"
    /\ key = "none"
    /\ painted # <<>>
    /\ painted[1].kind = "error"
    /\ status_message = NoStatus

LifecycleKeys == {"s", "x", "r", "n", "d"}

\* C12: with an empty inventory or a standing error, a lifecycle key (s, x,
\* r, n, d) issues no runtime call and leaves statusMessage, selectedIndex
\* and scrollOffset as they were, in the key handling and in the frame that
\* follows it.
C12_LifecycleKeysNeedInventory ==
    [][/\ (pc = "poll" /\ key' \in LifecycleKeys /\ (containers = <<>> \/ docker_error.set)) =>
             /\ pc' = "render"
             /\ calls' = <<>>
             /\ status_message' = status_message
             /\ selected_index' = selected_index
             /\ scroll_pos' = scroll_pos
       /\ (pc = "render" /\ pc' = "poll" /\ key \in LifecycleKeys
              /\ (containers = <<>> \/ docker_error.set)) =>
             /\ status_message' = status_message
             /\ selected_index' = selected_index
             /\ scroll_pos' = scroll_pos]_vars

\* the stop key was pressed on an inventory that a refresh had emptied,
\* with the scroll offset away from 0
C12_Witness ==
    /\ pc = "render"
    /\ key = "x"
    /\ containers = <<>>
    /\ calls = <<>>
    /\ scroll_pos > 0

C21_OnlyRefreshReplacesInventory ==
    [][/\ containers' # containers => (pc = "poll" /\ key' \in {"u", "timeout"})
       /\ (pc = "poll" /\ key' \in LifecycleKeys) =>
             /\ containers' = containers
             /\ \A i \in 1..Len(calls') :
                   calls'[i].op \in LifecycleOps =>
                      \E k \in 1..Len(containers') :
                         /\ containers'[k].obj = calls'[i].obj
                         /\ containers'[k] = containers[k]
       /\ (pc = "render" /\ key \in LifecycleKeys) => containers' = containers]_vars

\* the frame after a remove that returned: the removed container is still
\* the selected record of the inventory
C21_Witness ==
    /\ pc = "render"
    /\ key = "d"
    /\ Len(calls) = 1
    /\ calls[1].op = "remove"
    /\ calls[1].result = "ok"
    /\ status_message.kind = "success"
    /\ selected_index < Len(containers)
    /\ containers[selected_index + 1].obj = calls[1].obj

\* the records of the inventory that carry the name a confirmation prompt shows
ShownIn(row, cs) ==
    {k \in 1..Len(cs) : \E i \in 1..Len(row) : row[i].kind = "confirm" /\ row[i].name = cs[k].name}

\* C22: a delete key answered in the affirmative shows one confirmation
\* prompt and issues one runtime call, remove with force, on the handle of
\* the one record that carries the name the prompt shows; the inventory and
\* selectedIndex are the same before the prompt and after the call.
C22_RemoveActsOnPromptedRecord ==
    [][(pc = "poll" /\ key' = "d" /\ IsAffirmative(response')) =>
          /\ Len(painted') = 1
          /\ painted'[1].kind = "confirm"
          /\ Cardinality(ShownIn(painted', containers)) = 1
          /\ Len(calls') = 1
          /\ calls'[1].op = "remove"
          /\ calls'[1].arg = <<"f", "o", "r", "c", "e">>
          /\ \A k \in ShownIn(painted', containers) : calls'[1].obj = containers[k].obj
          /\ selected_index' = selected_index
          /\ containers' = containers]_vars

\* a delete of a record other than the first, confirmed with YES in capitals
C22_Witness ==
    /\ pc = "render"
    /\ key = "d"
    /\ response = <<"Y", "E", "S">>
    /\ selected_index > 0
    /\ Len(painted) = 1
    /\ painted[1].kind = "confirm"
    /\ painted[1].name = containers[selected_index + 1].name
    /\ Len(calls) = 1
    /\ calls[1].op = "remove"
    /\ calls[1].obj = containers[selected_index + 1].obj

----------------------------------------------------------------------------
(* Record building on its own: one get_docker_containers call on an
   enumeration and a NAT environment drawn from the sets below *)

Ip1 == <<"1", ".", "5">>
Port80 == <<"8", "0">>
Key80 == <<"8", "0", "/", "t", "c", "p">>
Rule(dport, ip, port) == [dport |-> dport, ip |-> ip, port |-> port]

\* a running container with one published port, a start time and a stats snapshot
Healthy ==
    [status |-> "running",
     image |-> [tags |-> <<<<"t">>>>, short_id |-> <<"i">>],
     net |-> [shape |-> "dict", networks |-> <<Ip1>>,
              ports |-> <<[key |-> Key80, host |-> [shape |-> "binding", port |-> <<"9">>]]>>],
     started |-> [shape |-> "iso", elapsed |-> 3665],
     stats |-> [shape |-> "ok", usage |-> 16106127]]

\* Healthy, and Healthy with one attribute changed
BuildProfiles ==
    {Healthy,
     [Healthy EXCEPT !.status = "exited"],
     [Healthy EXCEPT !.net = NoNetwork],
     [Healthy EXCEPT !.net = [shape |-> "null", networks |-> <<>>, ports |-> <<>>]],
     [Healthy EXCEPT !.net.ports = <<[key |-> Key80, host |-> [shape |-> "none", port |-> <<>>]]>>],
     [Healthy EXCEPT !.started.shape = "missing"],
     [Healthy EXCEPT !.started.shape = "malformed"],
     [Healthy EXCEPT !.started.shape = "null"],
     [Healthy EXCEPT !.stats.shape = "raises"],
     [Healthy EXCEPT !.stats.shape = "nokey"]}

\* in byte order: B < a < ab
BuildNames == {<<"B">>, <<"a">>, <<"a", "b">>}

BuildContainer(h, name, profile) ==
    [obj |-> h, name |-> name, status |-> profile.status, image |-> profile.image,
     net |-> profile.net, started |-> profile.started, stats |-> profile.stats]

Injective(f) == \A i, j \in DOMAIN f : i # j => f[i] # f[j]

\* the enumerations of n containers: handles 1..n in the order the runtime
\* yields them, any distinct names, any profiles
BuildListings(n) ==
    {[i \in 1..n |-> BuildContainer(i, names[i], profiles[i])] :
        names \in {f \in [1..n -> BuildNames] : Injective(f)},
        profiles \in [1..n -> BuildProfiles]}

BuildEnumerations ==
    {Ok(l) : l \in UNION {BuildListings(n) : n \in 0..MaxBuild}} \cup {Raise("APIError")}

NatEnvs ==
    {[fault |-> f, table |-> t] :
        f \in {"none", "sudo_denied", "tool_missing", "spawn_error"},
        t \in {<<>>, <<Rule(<<"7">>, Ip1, Port80)>>}}

InitBuild ==
    /\ listing \in BuildEnumerations
    /\ iptables \in NatEnvs
    /\ docker_error = NoError
    /\ containers = <<>>
    /\ calls = <<>>
    /\ selected_index = 0
    /\ scroll_pos = 0
    /\ status_message = NoStatus
    /\ list_height = 1
    /\ key = "none"
    /\ response = <<>>
    /\ painted = <<>>
    /\ pc = "build"

\* line 468: containers = self.get_docker_containers()
BuildRefresh ==
    /\ pc = "build"
    /\ containers' = GetDockerContainers(docker_error, listing, iptables).containers
    /\ docker_error' = GetDockerContainers(docker_error, listing, iptables).error
    /\ calls' = GetDockerContainers(docker_error, listing, iptables).calls
    /\ pc' = "built"
    /\ UNCHANGED <<selected_index, scroll_pos, status_message, list_height, key, response,
                   painted, listing, iptables>>

NextBuild == BuildRefresh

SpecBuild == InitBuild /\ [][NextBuild]_vars

----------------------------------------------------------------------------
(* Properties of record building *)

\* the sub-steps of a record that fail
UptimeFails(c) == c.status = "running" /\ c.started.shape # "iso"
MemoryFails(c) == c.stats.shape # "ok"
PortsFails(c, env) ==
    \/ c.net.shape = "null"
    \/ /\ c.net.shape = "dict"
       /\ env.fault # "none"
       /\ \E i \in 1..Len(c.net.ports) : c.net.ports[i].host.shape # "binding"

FailureCount(c, env) ==
    (IF UptimeFails(c) THEN 1 ELSE 0) + (IF MemoryFails(c) THEN 1 ELSE 0)
      + (IF PortsFails(c, env) THEN 1 ELSE 0)

\* the record built for the container with handle h, if there is one
RecordsOf(h) == {i \in 1..Len(containers) : containers[i].obj = h}

\* C5: when no enumerated container has more than one failing sub-step, the
\* refresh returns one record for every enumerated container, a failing
\* field holds N/A or Error, the other fields of the record hold values, and
\* the standing error is not set.
C5_FailureIsolation ==
    (/\ pc = "built"
     /\ listing.exc = "none"
     /\ \A i \in 1..Len(listing.val) : FailureCount(listing.val[i], iptables) <= 1) =>
        /\ ~docker_error.set
        /\ Len(containers) = Len(listing.val)
        /\ \A i \in 1..Len(listing.val) :
              LET c == listing.val[i]
              IN /\ Cardinality(RecordsOf(c.obj)) = 1
                 /\ \A k \in RecordsOf(c.obj) :
                       /\ MemoryFails(c) <=> containers[k].ram = NA
                       /\ UptimeFails(c) => containers[k].uptime \in {NA, ERR}
                       /\ (c.status = "running" /\ ~UptimeFails(c)) =>
                             containers[k].uptime \notin {NA, ERR}
                       /\ PortsFails(c, iptables) => containers[k].ports \in {NA, ERR}

\* the names of a list of records, in its order
NamesOf(cs) == [i \in 1..Len(cs) |-> cs[i].name]

\* the same containers, enumerated in the order p
Reordered(enumeration, p) == Ok([i \in 1..Len(enumeration.val) |-> enumeration.val[p[i]]])

\* C13: the inventory a refresh returns is in ascending order of name, and
\* the same containers enumerated in any other order give the records in
\* the same order.
C13_SortedByName ==
    (pc = "built" /\ listing.exc = "none") =>
        /\ \A i, j \in 1..Len(containers) :
              i < j => ~StrLess(containers[j].name, containers[i].name)
        /\ \A p \in Permutations(1..Len(listing.val)) :
              NamesOf(GetDockerContainers(NoError, Reordered(listing, p), iptables).containers)
                = NamesOf(containers)

\* a refresh that returned two records in the reverse of the order the
\* runtime enumerated them in
C13_Witness ==
    /\ pc = "built"
    /\ listing.exc = "none"
    /\ Len(listing.val) = 2
    /\ Len(containers) = 2
    /\ containers[1].obj = listing.val[2].obj
    /\ containers[2].obj = listing.val[1].obj

----------------------------------------------------------------------------
(* The ports field and the uptime field on their own: one
   get_docker_containers call on one container, whose network settings and
   NAT table, or whose status and start time, are drawn from small sets *)

Port8080 == <<"8", "0", "8", "0">>
Key8080 == <<"8", "0", "8", "0", "/", "t", "c", "p">>

\* a Ports item the runtime reports no host binding for, and one it reports p for
Unbound(k) == [key |-> k, host |-> [shape |-> "none", port |-> <<>>]]
Bound(k, p) == [key |-> k, host |-> [shape |-> "binding", port |-> p]]

\* attrs['NetworkSettings']['Ports']
PortsLists ==
    {<<>>,
     <<Unbound(Key80)>>,
     <<Bound(Key80, <<"9">>)>>,
     <<Unbound(Key8080)>>,
     <<Unbound(Key80), Unbound(Key8080)>>,
     <<Bound(Key80, <<"9">>), Unbound(Key8080)>>,
     <<[key |-> Key80, host |-> [shape |-> "nokey", port |-> <<>>]]>>}

\* the IPAddress of each attached network: none attached, one without an
\* address, one with an address, one without followed by one with
NetworkLists == {<<>>, <<<<>>>>, <<Ip1>>, <<<<>>, Ip1>>}

PortsNets ==
    {[shape |-> "dict", networks |-> n, ports |-> p] : n \in NetworkLists, p \in PortsLists}
      \cup {NoNetwork}

\* DNAT rules of the host: with or without a --dport clause, to port 80 or
\* to port 8080 of the container address
NatRules == {Rule(d, Ip1, p) : d \in {<<>>, <<"7">>, <<"8">>}, p \in {Port80, Port8080}}

NatTables == UNION {[1..n -> NatRules] : n \in 0..MaxRules}

NatFaults == {"none", "sudo_denied", "tool_missing", "spawn_error"}

PortsNatEnvs == {[fault |-> f, table |-> t] : f \in NatFaults, t \in NatTables}

\* container.status of a container that is not running
StoppedStatuses == {"exited", "paused", "created"}

\* seconds since the start: d days, h hours, m minutes and s seconds
ElapsedValues ==
    {d * SecondsPerDay + h * SecondsPerHour + m * SecondsPerMinute + sec :
        d \in 0..MaxDays, h \in {0, 1, 23}, m \in {0, 1, 59}, sec \in {0, 5, 59}}

\* __init__, with the one container the runtime holds and the NAT table
InitOne(container, nat) ==
    /\ listing = Ok(<<container>>)
    /\ iptables = nat
    /\ docker_error = NoError
    /\ containers = <<>>
    /\ calls = <<>>
    /\ selected_index = 0
    /\ scroll_pos = 0
    /\ status_message = NoStatus
    /\ list_height = 1
    /\ key = "none"
    /\ response = <<>>
    /\ painted = <<>>
    /\ pc = "build"

InitPorts ==
    \E net \in PortsNets, nat \in PortsNatEnvs :
        InitOne(BuildContainer(1, <<"a">>, [Healthy EXCEPT !.net = net]), nat)

SpecPorts == InitPorts /\ [][NextBuild]_vars

InitUptime ==
    \E status \in {"running"} \cup StoppedStatuses, elapsed \in ElapsedValues :
        InitOne(BuildContainer(1, <<"a">>,
                               [Healthy EXCEPT !.status = status, !.started.elapsed = elapsed]),
                NoIptables)

SpecUptime == InitUptime /\ [][NextBuild]_vars

----------------------------------------------------------------------------
(* Properties of the uptime field *)

\* the digits of n, most significant first
RECURSIVE Decimal(_)
Decimal(n) ==
    IF n < 10 THEN SubSeq(<<"0", "1", "2", "3", "4", "5", "6", "7", "8", "9">>, n + 1, n + 1)
    ELSE Decimal(n \div 10) \o Decimal(n % 10)

Part(n, unit) == IF n > 0 THEN Decimal(n) \o <<unit>> ELSE <<>>

\* the uptime text of the claim for e seconds
UptimeText(e) ==
    IF e \div 86400 = 0 /\ (e % 86400) \div 3600 = 0 /\ (e % 3600) \div 60 = 0
    THEN Decimal(e) \o <<"s">>
    ELSE Part(e \div 86400, "d") \o Part((e % 86400) \div 3600, "h")
           \o Part((e % 3600) \div 60, "m")

\* C16: the uptime of a running container that has been up e >= 0 seconds
\* is the parts <d>d, <h>h, <m>m that are not 0, in this order, with
\* d = e div 86400, h = (e mod 86400) div 3600, m = (e mod 3600) div 60, and
\* it is <e>s exactly when d = h = m = 0 (3665 gives 1h1m, 59 gives 59s,
\* 0 gives 0s); the uptime of a container that is not running is N/A.
C16_UptimeFormat ==
    pc = "built" =>
        /\ Len(containers) = 1
        /\ LET c == listing.val[1]
               e == c.started.elapsed
               uptime == containers[1].uptime
           IN /\ c.status # "running" => uptime = NA
              /\ c.status = "running" =>
                    /\ uptime = UptimeText(e)
                    /\ uptime[Len(uptime)] = "s" <=> e < 60
                    /\ e = 3665 => uptime = <<"1", "h", "1", "m">>
                    /\ e = 59 => uptime = <<"5", "9", "s">>
                    /\ e = 0 => uptime = <<"0", "s">>

\* a running container up for 3665 seconds, reported as 1h1m
C16_Witness ==
    /\ pc = "built"
    /\ Len(containers) = 1
    /\ listing.val[1].status = "running"
    /\ listing.val[1].started.elapsed = 3665
    /\ containers[1].uptime = <<"1", "h", "1", "m">>

----------------------------------------------------------------------------
(* Properties of the ports field and of the NAT fallback *)

\* the position of the first comma of s
FirstComma(s) == CHOOSE i \in 1..Len(s) : s[i] = "," /\ \A j \in 1..(i - 1) : s[j] # ","

\* the entries of a ports field
RECURSIVE EntriesOf(_)
EntriesOf(s) ==
    IF \A i \in 1..Len(s) : s[i] # "," THEN <<s>>
    ELSE <<SubSeq(s, 1, FirstComma(s) - 1)>> \o EntriesOf(SubSeq(s, FirstComma(s) + 1, Len(s)))

\* the container of the enumeration, and whether its record was built
TheContainer == listing.val[1]
RecordBuilt == pc = "built" /\ Len(containers) = 1

\* the declared ports, and those the runtime reports no host port for
DeclaredPorts == 1..Len(TheContainer.net.ports)
Unreported == {k \in DeclaredPorts : TheContainer.net.ports[k].host.shape # "binding"}

\* the container port of the k-th declared port and its entry in the record
ContainerPort(k) == BeforeSlash(TheContainer.net.ports[k].key)
EntryOf(k) == EntriesOf(containers[1].ports)[k]

\* the container has an attached network with a non-empty address
HasIp == \E i \in 1..Len(TheContainer.net.networks) : TheContainer.net.networks[i] # <<>>

\* the address the builder hands to the resolver
GivenIp == FirstIp(TheContainer.net.networks)

\* What the resolver returned for the k-th port, which the runtime reported
\* no host port for: N/A behind a bare entry, else the text before the arrow.
Returned(k) ==
    IF EntryOf(k) = ContainerPort(k) THEN NA
    ELSE SubSeq(EntryOf(k), 1, Len(EntryOf(k)) - Len(ContainerPort(k)) - Len(Arrow))

\* the rules of the NAT table whose translation target is exactly ip:port
RulesFor(ip, port) ==
    {i \in 1..Len(iptables.table) : iptables.table[i].ip = ip /\ iptables.table[i].port = port}

NatQueries == {i \in 1..Len(calls) : calls[i].op = "iptables"}

\* the rules the query for ip:port comes back with: those whose translation
\* target text begins with ip:port
RulesFound(ip, port) ==
    {i \in 1..Len(iptables.table) :
        StartsWith(iptables.table[i].ip \o <<":">> \o iptables.table[i].port,
                   ip \o <<":">> \o port)}

\* C14: when the query mechanism has run and has found no rule for the
\* given ip:port the resolver returns N/A; it never returns Error when the
\* mechanism has run, whatever the table holds; it returns Error only when
\* the mechanism could not run.
C14_NoRuleGivesNA ==
    RecordBuilt =>
        \A k \in Unreported :
            /\ (iptables.fault = "none" /\ RulesFound(GivenIp, ContainerPort(k)) = {}) =>
                   Returned(k) = NA
            /\ iptables.fault = "none" => Returned(k) # ERR
            /\ Returned(k) = ERR => iptables.fault = "spawn_error"

\* a query that ran against a table with rules, none of them for the port
\* asked about, and the bare entry that came of it
C14_Witness ==
    /\ RecordBuilt
    /\ HasIp
    /\ iptables.fault = "none"
    /\ iptables.table # <<>>
    /\ NatQueries # {}
    /\ \E k \in Unreported :
          /\ RulesFound(GivenIp, ContainerPort(k)) = {}
          /\ EntryOf(k) = ContainerPort(k)

\* C15: the entry of a declared port is host->container with the host port
\* the runtime reports, or else the one a rule of the NAT table supplied;
\* it is the bare container port when no host port was resolved, the
\* resolver having found no rule or failed; a container that declares no
\* port has the ports field N/A.
C15_PortsEntryFormat ==
    RecordBuilt =>
        /\ (TheContainer.net.shape = "absent" \/ TheContainer.net.ports = <<>>) =>
               containers[1].ports = NA
        /\ TheContainer.net.ports # <<>> =>
               /\ Len(EntriesOf(containers[1].ports)) = Len(TheContainer.net.ports)
               /\ \A k \in DeclaredPorts \ Unreported :
                      EntryOf(k) = TheContainer.net.ports[k].host.port \o Arrow \o ContainerPort(k)
               /\ \A k \in Unreported :
                      /\ \/ EntryOf(k) = ContainerPort(k)
                         \/ \E i \in 1..Len(iptables.table) :
                               /\ iptables.table[i].dport # <<>>
                               /\ EntryOf(k) = iptables.table[i].dport \o Arrow \o ContainerPort(k)
                      /\ (iptables.fault # "none" \/ iptables.table = <<>>) =>
                            EntryOf(k) = ContainerPort(k)

\* C17: when the query mechanism fails (sudo refuses, the tool is missing,
\* the shell cannot be started, or the rules for ip:port carry no --dport
\* clause) the resolver returns Error; and a call of the resolver issues at
\* most one query.
C17_MechanismFailureGivesError ==
    RecordBuilt =>
        /\ Cardinality(NatQueries) <= Cardinality(Unreported)
        /\ \A k \in Unreported :
              (/\ HasIp
               /\ \/ iptables.fault # "none"
                  \/ /\ RulesFor(GivenIp, ContainerPort(k)) # {}
                     /\ \A i \in 1..Len(iptables.table) : iptables.table[i].dport = <<>>) =>
                 Returned(k) = ERR

\* C19: building the record of a container with no non-empty address on any
\* attached network issues no NAT query, and every port the runtime reports
\* no host port for has a bare entry.
C19_NoIpNoQuery ==
    (RecordBuilt /\ ~HasIp) =>
        /\ NatQueries = {}
        /\ \A k \in Unreported : EntryOf(k) = ContainerPort(k)

\* C20: a host port the resolver returns is the --dport of a rule whose
\* translation target is exactly ip:port.
C20_ExactTarget ==
    RecordBuilt =>
        \A k \in Unreported :
            Returned(k) \notin {NA, ERR} =>
                \E i \in RulesFor(GivenIp, ContainerPort(k)) :
                    iptables.table[i].dport = Returned(k)

====
